---------------------------- MODULE Spec2Model ----------------------------
(***************************************************************************)
(* A model of the magic-writer editor (src/App.tsx and the two service     *)
(* modules): the document, the two sets of pending edits, the overlay      *)
(* renderer editorHtmlWithHighlights, the accept / reject handlers and the *)
(* asynchronous generate / suggest / grammar flows.                        *)
(*                                                                         *)
(* Strings are TLA+ strings, read character by character with SubSeq.      *)
(* The editor element is modelled by the list of nodes the browser builds  *)
(* from the markup React hands it (dangerouslySetInnerHTML): innerHTML is  *)
(* the serialisation of that list and innerText its text.                  *)
(***************************************************************************)
EXTENDS Integers, Sequences, FiniteSets, TLC

(***************************************************************************)
(* Bounds of the model.                                                    *)
(***************************************************************************)
\* input events (keystrokes, pastes) in one run
MaxInputs == 2
\* generate requests in one run
MaxGenerates == 1
\* "Get Suggestions" requests in one run
MaxSuggests == 1
\* grammar errors in one list handed to the renderer on its own
MaxErrors == 1
\* style suggestions in one list handed to the renderer on its own
MaxSuggestions == 1

(***************************************************************************)
(* Loops.  A loop of the program (or of the browser) is a step applied     *)
(* until it changes nothing; Iterate applies it n times, n an upper bound  *)
(* of the number of iterations.  The halves are evaluated one after the    *)
(* other, so long strings do not nest the evaluation deeply.               *)
(***************************************************************************)
RECURSIVE Iterate(_, _, _, _)
Iterate(Step(_, _), env, n, st) ==
  IF n <= 0 THEN st
  ELSE IF n = 1 THEN Step(env, st)
  ELSE LET mid == Iterate(Step, env, n \div 2, st) IN
       IF mid = mid THEN Iterate(Step, env, n - n \div 2, mid) ELSE mid

(***************************************************************************)
(* Characters and strings.                                                 *)
(***************************************************************************)
Ch(s, i) == IF 1 <= i /\ i <= Len(s) THEN SubSeq(s, i, i) ELSE ""

\* s.substring(i - 1, j): the characters i..j of s, "" when there are none
Sub(s, i, j) == IF i <= j /\ i <= Len(s) THEN SubSeq(s, i, j) ELSE ""

IsSpace(c) == c \in {" ", "\t", "\n", "\r", "\f"}

IsAlpha(c) ==
  c \in {"a","b","c","d","e","f","g","h","i","j","k","l","m",
         "n","o","p","q","r","s","t","u","v","w","x","y","z",
         "A","B","C","D","E","F","G","H","I","J","K","L","M",
         "N","O","P","Q","R","S","T","U","V","W","X","Y","Z"}

\* whether m occurs in s starting at index i (1-based)
MatchAt(s, i, m) ==
  /\ i >= 1
  /\ i + Len(m) - 1 <= Len(s)
  /\ Sub(s, i, i + Len(m) - 1) = m

RECURSIVE FirstMatch(_, _, _, _)
\* the first index in lo..hi at which m occurs in s, 0 when there is none
FirstMatch(s, m, lo, hi) ==
  IF lo > hi THEN 0
  ELSE IF lo = hi THEN (IF MatchAt(s, lo, m) THEN lo ELSE 0)
  ELSE LET mid == (lo + hi) \div 2
           l == FirstMatch(s, m, lo, mid)
       IN IF l > 0 THEN l ELSE FirstMatch(s, m, mid + 1, hi)

\* s.indexOf(m, i - 1) + 1
IndexFrom(s, m, i) == FirstMatch(s, m, i, Len(s) - Len(m) + 1)

IndexOf(s, m) == IndexFrom(s, m, 1)

RECURSIVE CountMatches(_, _, _, _)
\* the number of indices in lo..hi at which m occurs in s
CountMatches(s, m, lo, hi) ==
  IF lo > hi THEN 0
  ELSE IF lo = hi THEN (IF MatchAt(s, lo, m) THEN 1 ELSE 0)
  ELSE LET mid == (lo + hi) \div 2
       IN CountMatches(s, m, lo, mid) + CountMatches(s, m, mid + 1, hi)

Count(s, m) == CountMatches(s, m, 1, Len(s) - Len(m) + 1)

RECURSIVE FirstCharIn(_, _, _, _)
\* the first index in lo..hi of s holding a character of set, 0 when none
FirstCharIn(s, set, lo, hi) ==
  IF lo > hi THEN 0
  ELSE IF lo = hi THEN (IF Ch(s, lo) \in set THEN lo ELSE 0)
  ELSE LET mid == (lo + hi) \div 2
           l == FirstCharIn(s, set, lo, mid)
       IN IF l > 0 THEN l ELSE FirstCharIn(s, set, mid + 1, hi)

RECURSIVE MapChars(_, _, _, _)
\* the characters lo..hi of s, each replaced by F of it
MapChars(F(_), s, lo, hi) ==
  IF lo > hi THEN ""
  ELSE IF lo = hi THEN F(Ch(s, lo))
  ELSE LET mid == (lo + hi) \div 2
       IN MapChars(F, s, lo, mid) \o MapChars(F, s, mid + 1, hi)

RECURSIVE TrimStart(_)
TrimStart(s) == IF Len(s) > 0 /\ IsSpace(Ch(s, 1)) THEN TrimStart(Tail(s)) ELSE s

RECURSIVE TrimEnd(_)
TrimEnd(s) ==
  IF Len(s) > 0 /\ IsSpace(Ch(s, Len(s)))
  THEN TrimEnd(Sub(s, 1, Len(s) - 1)) ELSE s

\* String.prototype.trim
Trim(s) == TrimEnd(TrimStart(s))

RECURSIVE ExpandFrom(_, _, _, _, _)
\* GetSubstitution: the replacement patterns of String.prototype.replace,
\* from index i of rep on.  $$ is a dollar sign, $& the matched text, $` the
\* text before the match, $' the text after it; the patterns used here have
\* no capture groups, so $1..$99 stay as written.
ExpandFrom(rep, i, matched, before, after) ==
  LET d == IndexFrom(rep, "$", i) IN
  IF d = 0 THEN Sub(rep, i, Len(rep))
  ELSE Sub(rep, i, d - 1) \o
       (CASE Ch(rep, d + 1) = "$" ->
               "$" \o ExpandFrom(rep, d + 2, matched, before, after)
          [] Ch(rep, d + 1) = "&" ->
               matched \o ExpandFrom(rep, d + 2, matched, before, after)
          [] Ch(rep, d + 1) = "`" ->
               before \o ExpandFrom(rep, d + 2, matched, before, after)
          [] Ch(rep, d + 1) = "'" ->
               after \o ExpandFrom(rep, d + 2, matched, before, after)
          [] OTHER ->
               "$" \o ExpandFrom(rep, d + 1, matched, before, after))

Expand(rep, matched, before, after) == ExpandFrom(rep, 1, matched, before, after)

\* s.replace(pat, rep) with a string pattern: the first occurrence only
StringReplace(s, pat, rep) ==
  LET i == IndexOf(s, pat) IN
  IF i = 0 THEN s
  ELSE LET before == Sub(s, 1, i - 1)
           after  == Sub(s, i + Len(pat), Len(s))
       IN before \o Expand(rep, pat, before, after) \o after

(***************************************************************************)
(* The overlay renderer: escapeRegex and editorHtmlWithHighlights.         *)
(***************************************************************************)
IsRegexMeta(c) ==
  c \in {"-", "/", "\\", "^", "$", "*", "+", "?", ".", "(", ")", "|",
         "[", "]", "{", "}"}

EscapeMeta(c) == IF IsRegexMeta(c) THEN "\\" \o c ELSE c

\* string.replace(/[-\/\\^$*+?.()|[\]{}]/g, '\\$&')
escapeRegex(str) == MapChars(EscapeMeta, str, 1, Len(str))

RECURSIVE PatternTextFrom(_, _)
PatternTextFrom(pat, i) ==
  LET b == IndexFrom(pat, "\\", i) IN
  IF b = 0 THEN Sub(pat, i, Len(pat))
  ELSE Sub(pat, i, b - 1) \o Ch(pat, b + 1) \o PatternTextFrom(pat, b + 2)

\* The text a pattern of plain and backslash-escaped characters matches: the
\* body of new RegExp(`(?<!>)${escapeRegex(text)}(?!<)`, 'g').
PatternText(pat) == PatternTextFrom(pat, 1)

\* (?<!>)text(?!<) at index i: text occurs there, the character before it is
\* not ">" and the character after it is not "<"
AnchorAt(s, i, text) ==
  /\ MatchAt(s, i, text)
  /\ Ch(s, i - 1) # ">"
  /\ Ch(s, i + Len(text)) # "<"

RECURSIVE FirstAnchor(_, _, _, _)
\* the first index in lo..hi at which the pattern matches, 0 when none does
FirstAnchor(s, text, lo, hi) ==
  IF lo > hi THEN 0
  ELSE IF lo = hi THEN (IF AnchorAt(s, lo, text) THEN lo ELSE 0)
  ELSE LET mid == (lo + hi) \div 2
           l == FirstAnchor(s, text, lo, mid)
       IN IF l > 0 THEN l ELSE FirstAnchor(s, text, mid + 1, hi)

\* One round of String.prototype.replace with a g regex: st.i is lastIndex
\* + 1 and st.out the result so far.  The next match in env.s is replaced;
\* an empty match moves on by one character.  With no match left, the rest
\* of env.s is copied and the loop is over (st.i = 0).
RegexReplaceStep(env, st) ==
  IF st.i = 0 THEN st
  ELSE LET s == env.s
           a == FirstAnchor(s, env.text, st.i, Len(s) - Len(env.text) + 1)
       IN IF a = 0
          THEN [i |-> 0, out |-> st.out \o Sub(s, st.i, Len(s))]
          ELSE [i |-> IF Len(env.text) = 0 THEN a + 1 ELSE a + Len(env.text),
                out |-> st.out \o Sub(s, st.i, a - 1)
                        \o Expand(env.rep, env.text, Sub(s, 1, a - 1),
                                  Sub(s, a + Len(env.text), Len(s)))
                        \o (IF Len(env.text) = 0 THEN Ch(s, a) ELSE "")]

\* s.replace(new RegExp(`(?<!>)${pat}(?!<)`, 'g'), rep)
RegexReplaceAll(s, pat, rep) ==
  LET text == PatternText(pat) IN
  Iterate(RegexReplaceStep, [s |-> s, text |-> text, rep |-> rep],
          Count(s, text) + 1,
          [i |-> 1, out |-> ""]).out

QuoteEntity(c) == IF c = "\"" THEN "&quot;" ELSE c

\* suggestedText.replace(/"/g, '&quot;')
ReplaceQuotes(s) == MapChars(QuoteEntity, s, 1, Len(s))

GrammarClass == "grammar-error-underline"
SuggestionClass == "suggestion-underline"

\* the replacement string of one grammar error (App.tsx line 162)
GrammarSpan(error) ==
  "<span class=\"grammar-error-underline\" id=\"error-" \o error.id
    \o "\" title=\"" \o error.explanation \o "\">" \o error.errorText
    \o "</span>"

\* the replacement string of one style suggestion (App.tsx line 169)
SuggestionSpan(suggestion) ==
  "<span class=\"suggestion-underline\" id=\"suggestion-" \o suggestion.id
    \o "\" title=\"Suggested change: "
    \o ReplaceQuotes(suggestion.suggestedText) \o "\">"
    \o suggestion.originalText \o "</span>"

HighlightGrammar(content, error) ==
  RegexReplaceAll(content, escapeRegex(error.errorText), GrammarSpan(error))

HighlightSuggestion(content, suggestion) ==
  RegexReplaceAll(content, escapeRegex(suggestion.originalText),
                  SuggestionSpan(suggestion))

RECURSIVE ForEachGrammar(_, _, _)
\* the working string after grammarErrors.forEach has handled errors 1..k
ForEachGrammar(content, errors, k) ==
  IF k = 0 THEN content
  ELSE HighlightGrammar(ForEachGrammar(content, errors, k - 1), errors[k])

RECURSIVE ForEachSuggestion(_, _, _)
\* the working string after suggestions.forEach has handled suggestions 1..k
ForEachSuggestion(content, sugs, k) ==
  IF k = 0 THEN content
  ELSE HighlightSuggestion(ForEachSuggestion(content, sugs, k - 1), sugs[k])

\* the useMemo without its first line, the return of editorContent when
\* both lists are empty
editorHtmlWithoutEarlyReturn(content, plainText, errors, sugs) ==
  ForEachSuggestion(ForEachGrammar(plainText, errors, Len(errors)),
                    sugs, Len(sugs))

\* useMemo(() => ..., [suggestions, grammarErrors, editorContent]); plainText
\* is editorRef.current?.innerText || '' at the time of the render
editorHtmlWithHighlights(content, plainText, errors, sugs) ==
  IF Len(sugs) = 0 /\ Len(errors) = 0 THEN content
  ELSE ForEachSuggestion(ForEachGrammar(plainText, errors, Len(errors)),
                         sugs, Len(sugs))

(***************************************************************************)
(* The editor element.  dangerouslySetInnerHTML hands the browser a markup *)
(* string; the browser's fragment parser turns it into nodes.  A document  *)
(* is kept as the list of its nodes in document order: text, comment,      *)
(* start of an element and end of an element, always balanced.             *)
(***************************************************************************)
TextNode(str) == [t |-> "text", name |-> "", attrs |-> <<>>, text |-> str]
CommentNode(str) == [t |-> "comment", name |-> "", attrs |-> <<>>, text |-> str]
OpenNode(n, as) == [t |-> "open", name |-> n, attrs |-> as, text |-> ""]
CloseNode(n) == [t |-> "close", name |-> n, attrs |-> <<>>, text |-> ""]

VoidElements ==
  {"area", "base", "br", "col", "embed", "hr", "img", "input", "link",
   "meta", "source", "track", "wbr"}

\* the character reference at index i of s, if the serialiser writes it
RefAt(s, i) ==
  CASE MatchAt(s, i, "&amp;") -> [c |-> "&", n |-> 5]
    [] MatchAt(s, i, "&lt;") -> [c |-> "<", n |-> 4]
    [] MatchAt(s, i, "&gt;") -> [c |-> ">", n |-> 4]
    [] MatchAt(s, i, "&quot;") -> [c |-> "\"", n |-> 6]
    [] OTHER -> [c |-> Ch(s, i), n |-> 1]

RECURSIVE DecodeRefsFrom(_, _)
DecodeRefsFrom(s, i) ==
  LET a == IndexFrom(s, "&", i) IN
  IF a = 0 THEN Sub(s, i, Len(s))
  ELSE Sub(s, i, a - 1) \o RefAt(s, a).c \o DecodeRefsFrom(s, a + RefAt(s, a).n)

\* an attribute value with its character references read
DecodeRefs(s) == DecodeRefsFrom(s, 1)

RECURSIVE SkipSpaces(_, _)
SkipSpaces(s, i) ==
  IF i <= Len(s) /\ IsSpace(Ch(s, i)) THEN SkipSpaces(s, i + 1) ELSE i

\* the first index >= i holding a space or a character of stops, or Len(s)+1
NameEnd(s, i, stops) ==
  LET e == FirstCharIn(s, stops \cup {" ", "\t", "\n", "\r", "\f"}, i, Len(s))
  IN IF e = 0 THEN Len(s) + 1 ELSE e

HasAttr(as, n) == \E k \in 1..Len(as) : as[k].n = n

\* a repeated attribute is dropped: the first one stands
AddAttr(as, n, v) == IF HasAttr(as, n) THEN as ELSE Append(as, [n |-> n, v |-> v])

RECURSIVE ParseAttrs(_, _, _)
\* The attributes of a tag from index i0 up to its ">": [ok, attrs, next].
\* ok is FALSE when the markup ends inside the tag; the tag is then dropped.
ParseAttrs(s, i0, as) ==
  LET i == SkipSpaces(s, i0) IN
  IF i > Len(s) THEN [ok |-> FALSE, attrs |-> as, next |-> i]
  ELSE IF Ch(s, i) = ">" THEN [ok |-> TRUE, attrs |-> as, next |-> i + 1]
  ELSE IF Ch(s, i) = "/" THEN ParseAttrs(s, i + 1, as)
  ELSE
    LET j == NameEnd(s, i + 1, {"/", ">", "="})
        n == Sub(s, i, j - 1)
        k == SkipSpaces(s, j)
    IN
    IF Ch(s, k) # "=" THEN ParseAttrs(s, k, AddAttr(as, n, ""))
    ELSE
      LET v == SkipSpaces(s, k + 1) IN
      IF v > Len(s) THEN [ok |-> FALSE, attrs |-> as, next |-> v]
      ELSE IF Ch(s, v) \in {"\"", "'"} THEN
        LET e == IndexFrom(s, Ch(s, v), v + 1) IN
        IF e = 0 THEN [ok |-> FALSE, attrs |-> as, next |-> Len(s) + 1]
        ELSE ParseAttrs(s, e + 1,
                        AddAttr(as, n, DecodeRefs(Sub(s, v + 1, e - 1))))
      ELSE IF Ch(s, v) = ">"
        THEN [ok |-> TRUE, attrs |-> AddAttr(as, n, ""), next |-> v + 1]
      ELSE
        LET e == NameEnd(s, v, {">"}) IN
        ParseAttrs(s, e, AddAttr(as, n, DecodeRefs(Sub(s, v, e - 1))))

\* text is appended to the text node before it, when there is one
AppendText(out, str) ==
  IF Len(out) > 0 /\ out[Len(out)].t = "text"
  THEN [out EXCEPT ![Len(out)] = TextNode(out[Len(out)].text \o str)]
  ELSE Append(out, TextNode(str))

\* One token of markup s read at index st.i, after the tokens st.out.
TokenStep(s, st) ==
  LET i == st.i
      out == st.out
      end == [i |-> Len(s) + 1, out |-> out]
  IN
  IF i > Len(s) THEN st
  ELSE IF Ch(s, i) = "<" /\ IsAlpha(Ch(s, i + 1)) THEN
    \* a start tag
    LET j == NameEnd(s, i + 1, {"/", ">"})
        r == ParseAttrs(s, j, <<>>)
    IN IF r.ok
       THEN [i |-> r.next,
             out |-> Append(out, OpenNode(Sub(s, i + 1, j - 1), r.attrs))]
       ELSE end
  ELSE IF Ch(s, i) = "<" /\ Ch(s, i + 1) = "/" /\ IsAlpha(Ch(s, i + 2)) THEN
    \* an end tag
    LET j == NameEnd(s, i + 2, {"/", ">"})
        r == ParseAttrs(s, j, <<>>)
    IN IF r.ok
       THEN [i |-> r.next, out |-> Append(out, CloseNode(Sub(s, i + 2, j - 1)))]
       ELSE end
  ELSE IF Ch(s, i) = "<" /\ Ch(s, i + 1) = "/" /\ Ch(s, i + 2) = ">" THEN
    [i |-> i + 3, out |-> out]
  ELSE IF Ch(s, i) = "<" /\ Ch(s, i + 1) = "/" /\ i + 2 <= Len(s) THEN
    \* a bogus comment, up to the next ">"
    LET e == IndexFrom(s, ">", i + 2) IN
    IF e = 0
    THEN [i |-> Len(s) + 1, out |-> Append(out, CommentNode(Sub(s, i + 2, Len(s))))]
    ELSE [i |-> e + 1, out |-> Append(out, CommentNode(Sub(s, i + 2, e - 1)))]
  ELSE IF Ch(s, i) \in {"<", "&"} THEN
    [i |-> i + RefAt(s, i).n, out |-> AppendText(out, RefAt(s, i).c)]
  ELSE
    \* a run of text, up to the next "<" or "&"
    LET e == FirstCharIn(s, {"<", "&"}, i, Len(s))
        j == IF e = 0 THEN Len(s) + 1 ELSE e
    IN [i |-> j, out |-> AppendText(out, Sub(s, i, j - 1))]

RECURSIVE CountCharsIn(_, _, _, _)
\* the number of indices in lo..hi of s holding a character of set
CountCharsIn(s, set, lo, hi) ==
  IF lo > hi THEN 0
  ELSE IF lo = hi THEN (IF Ch(s, lo) \in set THEN 1 ELSE 0)
  ELSE LET mid == (lo + hi) \div 2
       IN CountCharsIn(s, set, lo, mid) + CountCharsIn(s, set, mid + 1, hi)

\* The tokens of markup s.  Every step reads a run of text, which ends at a
\* "<" or "&", or a token that starts with one: twice their number, and one,
\* bounds the steps.
Tokenize(s) ==
  Iterate(TokenStep, s, 2 * CountCharsIn(s, {"<", "&"}, 1, Len(s)) + 1,
          [i |-> 1, out |-> <<>>]).out

RECURSIVE CloseAll(_, _)
\* end every element of the stack of open elements, innermost (last) first
CloseAll(stack, out) ==
  IF Len(stack) = 0 THEN out
  ELSE CloseAll(SubSeq(stack, 1, Len(stack) - 1),
                Append(out, CloseNode(stack[Len(stack)])))

\* Tree construction, one token: an end tag ends the innermost open element
\* of its name and those opened inside it; an end tag with no open element
\* of its name is ignored; the end of the markup ends what is open.
TreeStep(toks, st) ==
  IF st.k > Len(toks) + 1 THEN st
  ELSE IF st.k = Len(toks) + 1
  THEN [k |-> st.k + 1, stack |-> <<>>, out |-> CloseAll(st.stack, st.out)]
  ELSE LET tok == toks[st.k] IN
    IF tok.t = "open" THEN
      IF tok.name \in VoidElements
      THEN [k |-> st.k + 1, stack |-> st.stack,
            out |-> Append(Append(st.out, tok), CloseNode(tok.name))]
      ELSE [k |-> st.k + 1, stack |-> Append(st.stack, tok.name),
            out |-> Append(st.out, tok)]
    ELSE IF tok.t = "close" THEN
      IF \E d \in 1..Len(st.stack) : st.stack[d] = tok.name THEN
        LET d == CHOOSE d \in 1..Len(st.stack) :
                   /\ st.stack[d] = tok.name
                   /\ \A e \in (d + 1)..Len(st.stack) : st.stack[e] # tok.name
        IN [k |-> st.k + 1, stack |-> SubSeq(st.stack, 1, d - 1),
            out |-> CloseAll(SubSeq(st.stack, d, Len(st.stack)), st.out)]
      ELSE [k |-> st.k + 1, stack |-> st.stack, out |-> st.out]
    ELSE [k |-> st.k + 1, stack |-> st.stack, out |-> Append(st.out, tok)]

BuildTree(toks) ==
  Iterate(TreeStep, toks, Len(toks) + 1, [k |-> 1, stack |-> <<>>, out |-> <<>>]).out

\* element.innerHTML = markup
ParseHtml(markup) == BuildTree(Tokenize(markup))

EscapeTextChar(c) ==
  CASE c = "&" -> "&amp;" [] c = "<" -> "&lt;" [] c = ">" -> "&gt;" [] OTHER -> c

EscapeAttrChar(c) ==
  CASE c = "&" -> "&amp;" [] c = "\"" -> "&quot;" [] OTHER -> c

EscapeText(s) == MapChars(EscapeTextChar, s, 1, Len(s))
EscapeAttr(s) == MapChars(EscapeAttrChar, s, 1, Len(s))

RECURSIVE SerializeAttrs(_, _)
SerializeAttrs(as, k) ==
  IF k > Len(as) THEN ""
  ELSE " " \o as[k].n \o "=\"" \o EscapeAttr(as[k].v) \o "\""
       \o SerializeAttrs(as, k + 1)

SerializeNode(node) ==
  CASE node.t = "text" -> EscapeText(node.text)
    [] node.t = "comment" -> "<!--" \o node.text \o "-->"
    [] node.t = "open" ->
         "<" \o node.name \o SerializeAttrs(node.attrs, 1) \o ">"
    [] OTHER ->
         IF node.name \in VoidElements THEN "" ELSE "</" \o node.name \o ">"

NodeText(node) == IF node.t = "text" THEN node.text ELSE ""

RECURSIVE ConcatNodes(_, _, _, _)
\* F of the nodes lo..hi, one after the other
ConcatNodes(F(_), nodes, lo, hi) ==
  IF lo > hi THEN ""
  ELSE IF lo = hi THEN F(nodes[lo])
  ELSE LET mid == (lo + hi) \div 2
       IN ConcatNodes(F, nodes, lo, mid) \o ConcatNodes(F, nodes, mid + 1, hi)

\* element.innerHTML
InnerHTML(nodes) == ConcatNodes(SerializeNode, nodes, 1, Len(nodes))

\* element.innerText, for inline content without runs of white space
InnerText(nodes) == ConcatNodes(NodeText, nodes, 1, Len(nodes))

AttrOf(node, n) ==
  IF HasAttr(node.attrs, n)
  THEN node.attrs[CHOOSE k \in 1..Len(node.attrs) : node.attrs[k].n = n].v
  ELSE ""

\* element.classList.contains(c)
ClassListContains(node, c) ==
  LET v == AttrOf(node, "class") IN
  \E i \in 1..Len(v) :
    /\ MatchAt(v, i, c)
    /\ (i = 1 \/ IsSpace(Ch(v, i - 1)))
    /\ (i + Len(c) > Len(v) \/ IsSpace(Ch(v, i + Len(c))))

(***************************************************************************)
(* The environment: what the user types and what the service returns.      *)
(***************************************************************************)
\* setEditorContent('Generating your draft...')
GeneratingPlaceholder == "Generating your draft..."

\* generateInitialText's catch branch
GenerateErrorText == "An error occurred while generating text. Please try again."

\* a draft of exactly 50 characters
LongDraft == "Teh cat sat on teh mat. Teh concert was very good."

\* response.text of a generate request
Drafts == {LongDraft}

\* the text one input event (a keystroke, a paste) puts at the caret
TypedTexts == {"Teh cat sat."}

\* Math.random().toString(36).substr(2, 9)
Ids == {"k3x9", "q7m2"}

\* JSON.parse(response.text) of a grammar request: the edits, without ids
GrammarReplies ==
  { <<>>,
    <<[errorText |-> "Teh", correction |-> "The", explanation |-> "Spelling"]>> }

\* JSON.parse(response.text) of a suggestion request: the edits, without ids
SuggestReplies ==
  { <<>>,
    <<[originalText |-> "very good", suggestedText |-> "excellent"],
      [originalText |-> "mat", suggestedText |-> "rug"]>> }

\* The n ids the map over a reply draws.  Only which of them are equal
\* matters to the program, so the first draw is k3x9 and the later ones are
\* any id.
IdDraws(n) == {ids \in [1..n -> Ids] : n > 0 => ids[1] = "k3x9"}

\* errors.map(e => ({ ...e, id: Math.random()... })): ids[k] is the k-th draw
WithErrorIds(reply, ids) ==
  [k \in 1..Len(reply) |->
     [errorText |-> reply[k].errorText, correction |-> reply[k].correction,
      explanation |-> reply[k].explanation, id |-> ids[k]]]

\* suggestions.map(s => ({ ...s, id: Math.random()... }))
WithSuggestionIds(reply, ids) ==
  [k \in 1..Len(reply) |->
     [originalText |-> reply[k].originalText,
      suggestedText |-> reply[k].suggestedText, id |-> ids[k]]]

\* the length under which getSuggestions returns [] without a request
SuggestMinLength == 50
\* the length under which checkGrammarAndSpelling returns [] without a request
GrammarMinLength == 10
\* the length the timer callback asks more than, to check the grammar
TimerMinLength == 10

(***************************************************************************)
(* The state of App.                                                       *)
(***************************************************************************)
VARIABLES
  editorContent,   \* useState<string>('')
  isLoading,       \* useState<boolean>(false)
  activeAiMode,    \* useState<AiMode | null>(null), "null" for null
  suggestions,     \* useState<Suggestion[]>([])
  grammarErrors,   \* useState<GrammarError[]>([])
  html,            \* editorHtmlWithHighlights, the value of the useMemo
  dom,             \* the child nodes of editorRef.current
  timeouts,        \* the armed timeouts of window.setTimeout
  grammarCheckTimeoutRef,  \* useRef<number | null>(null), 0 for null
  pending,         \* the service requests in flight
  inputs,          \* input events so far
  generates,       \* generate requests so far
  suggests,        \* suggestion requests so far
  setEpoch,        \* per EditSet, the inputs value its request was issued at
  selection,       \* useState<{text, range} | null>(null), <<>> for null
  toolbarPosition, \* useState<{top, left} | null>(null), TRUE when not null
  rewrites,        \* the handleRewrite calls waiting for rewriteSelection
  rewriteCount,    \* rewrite requests so far
  last             \* the last handler that ran, with what it started from

\* the debounce timer: the armed timeouts and the ref that names one
timer == <<timeouts, grammarCheckTimeoutRef>>

\* the state of the selection rewrite
rewriting == <<selection, toolbarPosition, rewrites, rewriteCount>>

vars == <<editorContent, isLoading, activeAiMode, suggestions, grammarErrors,
          html, dom, timer, pending, inputs, generates, suggests, setEpoch,
          rewriting, last>>


NoOp == [op |-> "none", kind |-> "", id |-> "", matchText |-> "",
         replacementText |-> "", prePlain |-> "", preContent |-> "",
         preHtml |-> "", preErrors |-> <<>>, preSuggestions |-> <<>>,
         preMode |-> "", preLoading |-> FALSE, n |-> 0, result |-> "",
         failed |-> FALSE]

Init ==
  /\ editorContent = ""
  /\ isLoading = FALSE
  /\ activeAiMode = "null"
  /\ suggestions = <<>>
  /\ grammarErrors = <<>>
  /\ html = ""
  /\ dom = <<>>
  /\ timeouts = {} /\ grammarCheckTimeoutRef = 0
  /\ pending = {}
  /\ selection = <<>> /\ toolbarPosition = FALSE
  /\ rewrites = {} /\ rewriteCount = 0
  /\ inputs = 0
  /\ generates = 0
  /\ suggests = 0
  /\ setEpoch = [grammar |-> 0, suggestion |-> 0]
  /\ last = NoOp

\* The render that follows a change of suggestions, grammarErrors or
\* editorContent: useMemo runs editorHtmlWithHighlights on the text the
\* element holds (nodes), and dangerouslySetInnerHTML gives the element the
\* markup when it differs from the markup of the render before.
Rerender(content, nodes, errors, sugs) ==
  LET newHtml == editorHtmlWithHighlights(content, InnerText(nodes), errors, sugs)
  IN /\ html' = newHtml
     /\ dom' = IF newHtml = html THEN nodes ELSE ParseHtml(newHtml)

\* the record in last of a handler other than a click
Did(name) == [NoOp EXCEPT !.op = name]

\* the record in last of a click handler
Op(name, kind, id, matchText, replacementText) ==
  [op |-> name, kind |-> kind, id |-> id, matchText |-> matchText,
   replacementText |-> replacementText, prePlain |-> InnerText(dom),
   preContent |-> editorContent, preHtml |-> InnerHTML(dom),
   preErrors |-> grammarErrors, preSuggestions |-> suggestions]

(***************************************************************************)
(* The handlers.  Each action is a whole handler (or the part of an async  *)
(* handler between two awaits) with the render that follows it.            *)
(***************************************************************************)
Request(kind, text, n) == [kind |-> kind, text |-> text, epoch |-> inputs, n |-> n]

\* the request reaches the service: getSuggestions and
\* checkGrammarAndSpelling return [] for a short text without asking it
ServiceCalled(req) ==
  \/ req.kind = "generate"
  \/ req.kind = "suggest" /\ Len(Trim(req.text)) >= SuggestMinLength
  \/ req.kind = "grammar" /\ Len(Trim(req.text)) >= GrammarMinLength

\* whether the request ends in the catch branch of the service function (a
\* failed call, a reply that does not parse or is no list): only a request
\* that reaches the service can
Failures(req) == IF ServiceCalled(req) THEN {FALSE, TRUE} ELSE {FALSE}

\* handleGenerate up to its await; the button is disabled while generating
HandleGenerate ==
  /\ ~(isLoading /\ activeAiMode = "generate")
  /\ generates < MaxGenerates
  /\ isLoading' = TRUE
  /\ activeAiMode' = "generate"
  /\ editorContent' = GeneratingPlaceholder
  /\ pending' = pending \cup {Request("generate", "", generates + 1)}
  /\ generates' = generates + 1
  /\ Rerender(GeneratingPlaceholder, dom, grammarErrors, suggestions)
  /\ last' = Did("generate")
  /\ UNCHANGED <<suggestions, grammarErrors, timer, inputs, suggests, setEpoch,
                 rewriting>>

\* handleGenerate after its await without its setGrammarErrors([]) and
\* setSuggestions([])
GenerateDoneKeepingEdits ==
  \E req \in pending :
    \E failed \in Failures(req) :
      \E result \in (IF failed THEN {GenerateErrorText} ELSE Drafts) :
        /\ req.kind = "generate"
        /\ pending' = pending \ {req}
        /\ editorContent' = result
        /\ isLoading' = FALSE
        /\ activeAiMode' = "null"
        /\ Rerender(result, dom, grammarErrors, suggestions)
        /\ last' = [Did("generated") EXCEPT !.result = result,
                      !.failed = failed, !.preErrors = grammarErrors,
                      !.preSuggestions = suggestions]
        /\ UNCHANGED <<suggestions, grammarErrors, timer, inputs, generates,
                       suggests, setEpoch, rewriting>>

\* handleGenerate after its await: result is what generateInitialText
\* returns, the text of the reply or, from its catch branch, the fixed text
GenerateDone ==
  \E req \in pending :
    \E failed \in Failures(req) :
      \E result \in (IF failed THEN {GenerateErrorText} ELSE Drafts) :
        /\ req.kind = "generate"
        /\ pending' = pending \ {req}
        /\ editorContent' = result
        /\ suggestions' = <<>>
        /\ grammarErrors' = <<>>
        /\ isLoading' = FALSE
        /\ activeAiMode' = "null"
        /\ Rerender(result, dom, <<>>, <<>>)
        /\ last' = [Did("generated") EXCEPT !.result = result,
                      !.failed = failed, !.preErrors = grammarErrors,
                      !.preSuggestions = suggestions]
        /\ UNCHANGED <<timer, inputs, generates, suggests, setEpoch,
                       rewriting>>

\* handleSuggest up to its await; the button is disabled while suggesting.
\* For a short text getSuggestions returns [] without a request, and the
\* rest of handleSuggest runs before any other event: the handler is one
\* step.
HandleSuggest ==
  LET fullText == InnerText(dom)
      req == Request("suggest", fullText, suggests + 1)
  IN
  /\ ~(isLoading /\ activeAiMode = "suggest")
  /\ suggests < MaxSuggests
  /\ suggests' = suggests + 1
  /\ IF ServiceCalled(req)
     THEN /\ isLoading' = TRUE
          /\ activeAiMode' = "suggest"
          /\ pending' = pending \cup {req}
          /\ last' = Did("suggest")
          /\ UNCHANGED <<suggestions, html, dom, setEpoch>>
     ELSE /\ suggestions' = <<>>
          /\ Rerender(editorContent, dom, grammarErrors, <<>>)
          /\ isLoading' = FALSE
          /\ activeAiMode' = "null"
          /\ setEpoch' = [setEpoch EXCEPT !.suggestion = inputs]
          /\ last' = [Did("suggested") EXCEPT !.prePlain = fullText,
                                               !.preContent = editorContent,
                                               !.preErrors = grammarErrors,
                                               !.preSuggestions = suggestions]
          /\ UNCHANGED pending
  /\ UNCHANGED <<editorContent, grammarErrors, timer, inputs, generates,
                 rewriting>>

\* what getSuggestions may return for fullText, before the ids are added
SuggestionResults(fullText) ==
  IF Len(Trim(fullText)) < SuggestMinLength THEN {<<>>} ELSE SuggestReplies

\* handleSuggest after its await
SuggestDone ==
  \E req \in pending :
    /\ req.kind = "suggest"
    /\ \E failed \in Failures(req) :
         \E reply \in (IF failed THEN {<<>>} ELSE SuggestionResults(req.text)) :
           \E ids \in IdDraws(Len(reply)) :
             LET newSuggestions == WithSuggestionIds(reply, ids) IN
             /\ suggestions' = newSuggestions
             /\ Rerender(editorContent, dom, grammarErrors, newSuggestions)
             /\ last' = [Did("suggested") EXCEPT !.prePlain = req.text,
                                                  !.preContent = editorContent,
                                                  !.preErrors = grammarErrors,
                                                  !.preSuggestions = suggestions,
                                                  !.failed = failed]
    /\ pending' = pending \ {req}
    /\ isLoading' = FALSE
    /\ activeAiMode' = "null"
    /\ setEpoch' = [setEpoch EXCEPT !.suggestion = req.epoch]
    /\ UNCHANGED <<editorContent, grammarErrors, timer, inputs, generates, suggests,
                   rewriting>>

\* the element after the user has typed (or pasted) typed at its end
DomAfterInput(nodes, typed) == AppendText(nodes, typed)

\* handleContentChange without its setGrammarErrors([])
HandleContentChangeKeepingErrors ==
  \E typed \in TypedTexts :
    LET typedDom == DomAfterInput(dom, typed)
        newContent == InnerHTML(typedDom)
        plainText == InnerText(typedDom)
    IN
    /\ ~isLoading
    /\ inputs < MaxInputs
    /\ editorContent' = newContent
    /\ suggestions' = IF Len(suggestions) > 0 THEN <<>> ELSE suggestions
    /\ grammarErrors' = grammarErrors
    /\ timeouts' = {t \in timeouts : t.id # grammarCheckTimeoutRef}
                      \cup {[id |-> inputs + 1, plainText |-> plainText]}
    /\ grammarCheckTimeoutRef' = inputs + 1
    /\ Rerender(newContent, typedDom, grammarErrors', suggestions')
    /\ inputs' = inputs + 1
    /\ last' = [Did("input") EXCEPT !.preErrors = grammarErrors,
                                     !.preSuggestions = suggestions]
    /\ UNCHANGED <<isLoading, activeAiMode, pending, generates, suggests, setEpoch,
                   rewriting>>

\* handleContentChange without its clearTimeout
HandleContentChangeNotCancelling ==
  \E typed \in TypedTexts :
    LET typedDom == DomAfterInput(dom, typed)
        newContent == InnerHTML(typedDom)
        plainText == InnerText(typedDom)
    IN
    /\ ~isLoading
    /\ inputs < MaxInputs
    /\ editorContent' = newContent
    /\ suggestions' = IF Len(suggestions) > 0 THEN <<>> ELSE suggestions
    /\ grammarErrors' = IF Len(grammarErrors) > 0 THEN <<>> ELSE grammarErrors
    /\ timeouts' = timeouts \cup {[id |-> inputs + 1, plainText |-> plainText]}
    /\ grammarCheckTimeoutRef' = inputs + 1
    /\ Rerender(newContent, typedDom, grammarErrors', suggestions')
    /\ inputs' = inputs + 1
    /\ last' = [Did("input") EXCEPT !.preErrors = grammarErrors,
                                     !.preSuggestions = suggestions]
    /\ UNCHANGED <<isLoading, activeAiMode, pending, generates, suggests, setEpoch,
                   rewriting>>

\* handleContentChange, the onInput handler; the element is editable only
\* while isLoading is false
HandleContentChange ==
  \E typed \in TypedTexts :
    LET typedDom == DomAfterInput(dom, typed)
        newContent == InnerHTML(typedDom)
        plainText == InnerText(typedDom)
    IN
    /\ ~isLoading
    /\ inputs < MaxInputs
    /\ editorContent' = newContent
    /\ suggestions' = IF Len(suggestions) > 0 THEN <<>> ELSE suggestions
    /\ grammarErrors' = IF Len(grammarErrors) > 0 THEN <<>> ELSE grammarErrors
    /\ timeouts' = {t \in timeouts : t.id # grammarCheckTimeoutRef}
                      \cup {[id |-> inputs + 1, plainText |-> plainText]}
    /\ grammarCheckTimeoutRef' = inputs + 1
    /\ Rerender(newContent, typedDom, grammarErrors', suggestions')
    /\ inputs' = inputs + 1
    /\ last' = [Did("input") EXCEPT !.preErrors = grammarErrors,
                                     !.preSuggestions = suggestions]
    /\ UNCHANGED <<isLoading, activeAiMode, pending, generates, suggests, setEpoch,
                   rewriting>>

\* the timeout's callback with >= for > in its test of the length
TimerFiresAtThreshold ==
  \E t \in timeouts :
  /\ timeouts' = timeouts \ {t}
  /\ IF Len(Trim(t.plainText)) >= TimerMinLength
     THEN /\ activeAiMode' = "grammar"
          /\ pending' = pending \cup {Request("grammar", t.plainText, t.id)}
     ELSE UNCHANGED <<activeAiMode, pending>>
  /\ last' = [Did("timer") EXCEPT !.n = t.id, !.prePlain = t.plainText,
                                   !.preErrors = grammarErrors,
                                   !.preMode = activeAiMode]
  /\ UNCHANGED <<editorContent, isLoading, suggestions, grammarErrors, html,
                 dom, grammarCheckTimeoutRef, inputs, generates, suggests,
                 setEpoch, rewriting>>

\* the timeout's callback fires, 1.5 s after the last input event
TimerFires ==
  \E t \in timeouts :
  /\ timeouts' = timeouts \ {t}
  /\ IF Len(Trim(t.plainText)) > TimerMinLength
     THEN /\ activeAiMode' = "grammar"
          /\ pending' = pending \cup {Request("grammar", t.plainText, t.id)}
     ELSE UNCHANGED <<activeAiMode, pending>>
  /\ last' = [Did("timer") EXCEPT !.n = t.id, !.prePlain = t.plainText,
                                   !.preErrors = grammarErrors,
                                   !.preMode = activeAiMode]
  /\ UNCHANGED <<editorContent, isLoading, suggestions, grammarErrors, html,
                 dom, grammarCheckTimeoutRef, inputs, generates, suggests,
                 setEpoch, rewriting>>

\* what checkGrammarAndSpelling may return for fullText, before the ids
GrammarResults(fullText) ==
  IF Len(Trim(fullText)) < GrammarMinLength THEN {<<>>} ELSE GrammarReplies

\* the timeout's callback after its await, without its
\* setActiveAiMode(null)
GrammarDoneKeepingMode ==
  \E req \in pending :
    /\ req.kind = "grammar"
    /\ \E failed \in Failures(req) :
         \E reply \in (IF failed THEN {<<>>} ELSE GrammarResults(req.text)) :
           \E ids \in IdDraws(Len(reply)) :
             LET errors == WithErrorIds(reply, ids) IN
             /\ grammarErrors' = errors
             /\ Rerender(editorContent, dom, errors, suggestions)
             /\ last' = [Did("checked") EXCEPT !.failed = failed]
    /\ pending' = pending \ {req}
    /\ setEpoch' = [setEpoch EXCEPT !.grammar = req.epoch]
    /\ UNCHANGED <<editorContent, isLoading, activeAiMode, suggestions, timer,
                   inputs, generates, suggests, rewriting>>

\* the timeout's callback after its await
GrammarDone ==
  \E req \in pending :
    /\ req.kind = "grammar"
    /\ \E failed \in Failures(req) :
         \E reply \in (IF failed THEN {<<>>} ELSE GrammarResults(req.text)) :
           \E ids \in IdDraws(Len(reply)) :
             LET errors == WithErrorIds(reply, ids) IN
             /\ grammarErrors' = errors
             /\ Rerender(editorContent, dom, errors, suggestions)
             /\ last' = [Did("checked") EXCEPT !.failed = failed]
    /\ pending' = pending \ {req}
    /\ activeAiMode' = "null"
    /\ setEpoch' = [setEpoch EXCEPT !.grammar = req.epoch]
    /\ UNCHANGED <<editorContent, isLoading, suggestions, timer, inputs,
                   generates, suggests, rewriting>>

\* the elements of the editor a click can land on: an element that starts
\* with text of its own (event.target is the innermost element at the pointer)
ClickTargets(nodes) ==
  {k \in 1..(Len(nodes) - 1) :
     /\ nodes[k].t = "open"
     /\ nodes[k + 1].t = "text"
     /\ Len(nodes[k + 1].text) > 0}

\* suggestions.find(s => s.id === id): the index of the first one, 0 for none
FindById(edits, id) ==
  IF \E k \in 1..Len(edits) : edits[k].id = id
  THEN CHOOSE k \in 1..Len(edits) :
         /\ edits[k].id = id
         /\ \A j \in 1..(k - 1) : edits[j].id # id
  ELSE 0

\* suggestions.filter(s => s.id !== id)
FilterOutId(edits, id) == SelectSeq(edits, LAMBDA e : e.id # id)

\* the string applySuggestion and rejectSuggestion look for in innerHTML
SuggestionMarkup(suggestion) ==
  "<span class=\"suggestion-underline\" id=\"suggestion-" \o suggestion.id
    \o "\">" \o suggestion.originalText \o "</span>"

\* the string applyCorrection and rejectCorrection look for in innerHTML
CorrectionMarkup(error) ==
  "<span class=\"grammar-error-underline\" id=\"error-" \o error.id
    \o "\">" \o error.errorText \o "</span>"

\* applySuggestion(suggestion)
applySuggestion(suggestion) ==
  LET newContent == StringReplace(InnerHTML(dom), SuggestionMarkup(suggestion),
                                  suggestion.suggestedText)
      rest == FilterOutId(suggestions, suggestion.id)
  IN /\ editorContent' = newContent
     /\ suggestions' = rest
     /\ Rerender(newContent, dom, grammarErrors, rest)
     /\ UNCHANGED grammarErrors

\* rejectSuggestion(suggestion)
rejectSuggestion(suggestion) ==
  LET newContent == StringReplace(InnerHTML(dom), SuggestionMarkup(suggestion),
                                  suggestion.originalText)
      rest == FilterOutId(suggestions, suggestion.id)
  IN /\ editorContent' = newContent
     /\ suggestions' = rest
     /\ Rerender(newContent, dom, grammarErrors, rest)
     /\ UNCHANGED grammarErrors

\* applyCorrection(error)
applyCorrection(error) ==
  LET newContent == StringReplace(InnerHTML(dom), CorrectionMarkup(error),
                                  error.correction)
      rest == FilterOutId(grammarErrors, error.id)
  IN /\ editorContent' = newContent
     /\ grammarErrors' = rest
     /\ Rerender(newContent, dom, rest, suggestions)
     /\ UNCHANGED suggestions

\* rejectCorrection(error)
rejectCorrection(error) ==
  LET newContent == StringReplace(InnerHTML(dom), CorrectionMarkup(error),
                                  error.errorText)
      rest == FilterOutId(grammarErrors, error.id)
  IN /\ editorContent' = newContent
     /\ grammarErrors' = rest
     /\ Rerender(newContent, dom, rest, suggestions)
     /\ UNCHANGED suggestions

\* The click listener of the editor, for a click on the element at k with
\* the user's answer to window.confirm.  While isLoading is true outside a
\* generation, the spinner layer covers the editor and takes the clicks.
handleClick(k, confirmed) ==
  LET target == dom[k] IN
  /\ ~(isLoading /\ activeAiMode # "generate")
  /\ IF ClassListContains(target, SuggestionClass) THEN
       LET suggestionId == StringReplace(AttrOf(target, "id"), "suggestion-", "")
           f == FindById(suggestions, suggestionId)
       IN /\ f > 0
          /\ last' = Op(IF confirmed THEN "accept" ELSE "reject", "suggestion",
                        suggestionId, suggestions[f].originalText,
                        suggestions[f].suggestedText)
          /\ IF confirmed THEN applySuggestion(suggestions[f])
             ELSE rejectSuggestion(suggestions[f])
     ELSE
       LET errorId == StringReplace(AttrOf(target, "id"), "error-", "")
           f == FindById(grammarErrors, errorId)
       IN /\ ClassListContains(target, GrammarClass)
          /\ f > 0
          /\ last' = Op(IF confirmed THEN "accept" ELSE "reject", "grammar",
                        errorId, grammarErrors[f].errorText,
                        grammarErrors[f].correction)
          /\ IF confirmed THEN applyCorrection(grammarErrors[f])
             ELSE rejectCorrection(grammarErrors[f])
  /\ UNCHANGED <<isLoading, activeAiMode, timer, pending, inputs, generates,
                 suggests, setEpoch, rewriting>>

ClickAccept == \E k \in ClickTargets(dom) : handleClick(k, TRUE)

ClickReject == \E k \in ClickTargets(dom) : handleClick(k, FALSE)

Next ==
  \/ HandleGenerate
  \/ GenerateDone
  \/ HandleSuggest
  \/ SuggestDone
  \/ HandleContentChange
  \/ TimerFires
  \/ GrammarDone
  \/ ClickAccept
  \/ ClickReject

Spec == Init /\ [][Next]_vars


(***************************************************************************)
(* The renderer on its own: editorHtmlWithHighlights for a text and two    *)
(* lists of edits, as the render that follows setGrammarErrors and         *)
(* setSuggestions computes it.                                             *)
(***************************************************************************)
\* the plain texts the editor holds
RenderTexts == {"Teh cat sat.", "the cat and the hat", "Teh title"}

\* the grammar errors the lists are made of
ErrorPool ==
  { [errorText |-> "Teh", correction |-> "The", explanation |-> "Spelling"],
    [errorText |-> "", correction |-> "A", explanation |-> "Missing article"],
    [errorText |-> "Teh cat sat", correction |-> "The cat sat",
     explanation |-> "Spelling"],
    [errorText |-> "cat", correction |-> "Cat",
     explanation |-> "Use \"Cat\""] }

\* the style suggestions the lists are made of
SuggestionPool ==
  { [originalText |-> "cat", suggestedText |-> "kitten"],
    [originalText |-> "the", suggestedText |-> "a"],
    [originalText |-> "title", suggestedText |-> "name"],
    [originalText |-> "error", suggestedText |-> "mistake"],
    [originalText |-> "sat", suggestedText |-> "\"sat\" down"] }

\* the lists of at most n different members of pool
ListsOf(pool, n) ==
  UNION { {l \in [1..m -> pool] : \A i, j \in 1..m : l[i] = l[j] => i = j} :
          m \in 0..n }

\* the id of the k-th edit of a list, all different
RenderId(k) == IF k = 1 THEN "k3x9" ELSE IF k = 2 THEN "q7m2" ELSE "w5t8"

RenderIds(list) == [k \in 1..Len(list) |-> RenderId(k)]

\* the state just after the setters: the element holds plainText, unmarked
RenderInit ==
  \E plainText \in RenderTexts,
     errors \in ListsOf(ErrorPool, MaxErrors),
     sugs \in ListsOf(SuggestionPool, MaxSuggestions) :
    /\ dom = <<TextNode(plainText)>>
    /\ editorContent = EscapeText(plainText)
    /\ html = EscapeText(plainText)
    /\ grammarErrors = WithErrorIds(errors, RenderIds(errors))
    /\ suggestions = WithSuggestionIds(sugs, RenderIds(sugs))
    /\ isLoading = FALSE
    /\ activeAiMode = "null"
    /\ timeouts = {} /\ grammarCheckTimeoutRef = 0
    /\ pending = {}
    /\ selection = <<>> /\ toolbarPosition = FALSE
    /\ rewrites = {} /\ rewriteCount = 0
    /\ inputs = 0
    /\ generates = 0
    /\ suggests = 0
    /\ setEpoch = [grammar |-> 0, suggestion |-> 0]
    /\ last = NoOp

\* the render: useMemo recomputes the markup and React commits it
Render ==
  /\ last.op = "none"
  /\ Rerender(editorContent, dom, grammarErrors, suggestions)
  /\ last' = [Did("render") EXCEPT !.prePlain = InnerText(dom)]
  /\ UNCHANGED <<editorContent, isLoading, activeAiMode, suggestions,
                 grammarErrors, timer, pending, inputs, generates, suggests,
                 setEpoch, rewriting>>

RenderNext == Render

RenderSpec == RenderInit /\ [][RenderNext]_vars

(***************************************************************************)
(* The debounced grammar check on its own, from the state an input event   *)
(* leaves: the element holds a text and the timeout of that event is       *)
(* armed.                                                                  *)
(***************************************************************************)
\* the texts the input event left, of 3, 10, 11 and 12 characters
TimerTexts == {"Hi.", "Teh cat sa", "Teh cat sat", "Teh cat sat."}

TimerInit ==
  \E plainText \in TimerTexts :
    /\ dom = <<TextNode(plainText)>>
    /\ editorContent = EscapeText(plainText)
    /\ html = EscapeText(plainText)
    /\ grammarErrors = <<>>
    /\ suggestions = <<>>
    /\ isLoading = FALSE
    /\ activeAiMode = "null"
    /\ timeouts = {[id |-> 1, plainText |-> plainText]}
    /\ grammarCheckTimeoutRef = 1
    /\ pending = {}
    /\ selection = <<>> /\ toolbarPosition = FALSE
    /\ rewrites = {} /\ rewriteCount = 0
    /\ inputs = 1
    /\ generates = 0
    /\ suggests = 0
    /\ setEpoch = [grammar |-> 0, suggestion |-> 0]
    /\ last = Did("input")

TimerNext ==
  \/ HandleContentChange
  \/ TimerFires
  \/ GrammarDone
  \/ ClickAccept
  \/ ClickReject

TimerSpec == TimerInit /\ [][TimerNext]_vars

(***************************************************************************)
(* The AI operations from the state an input event leaves, when the user   *)
(* issues no further input event and no click on an overlay: every service *)
(* call returns, with a reply or a failure, and the armed timeout fires.   *)
(***************************************************************************)
OperationsNext ==
  \/ HandleGenerate
  \/ GenerateDone
  \/ HandleSuggest
  \/ SuggestDone
  \/ TimerFires
  \/ GrammarDone

\* a request of the kind is waiting for the service
InFlight(kind) == \E r \in pending : r.kind = kind

\* the service call of a request of the kind returns
Returns(kind) ==
  \E r \in pending : r.kind = kind /\ pending' = pending \ {r}

\* Weak fairness of the handler that a returning call of the kind resumes,
\* written out: the handler is enabled exactly when a request of the kind
\* is in flight, and its steps are the steps that take one out of pending.
\* (ENABLED of GenerateDone, SuggestDone or GrammarDone would run the
\* renderer once for every state and every reply.)
EveryCallReturns(kind) ==
  []<>~InFlight(kind) \/ []<><<Returns(kind)>>_vars

LiveSpec ==
  /\ TimerInit
  /\ [][OperationsNext]_vars
  /\ WF_vars(TimerFires)
  /\ EveryCallReturns("generate")
  /\ EveryCallReturns("suggest")
  /\ EveryCallReturns("grammar")

(***************************************************************************)
(* The selection rewrite, on a document of plain text with no edit         *)
(* pending and no timer armed.                                             *)
(***************************************************************************)
MaxRewrites == 1

RewriteTexts == {"Teh cat sat."}

\* what the service may answer to a rewrite request, and the instructions
\* the user may type in the toolbar
RewriteReplies == {" The dog sat. "}
Instructions == {"", "Make it formal"}

\* the offsets of a text where a word or a run of white space starts or ends
WordBoundaries(str) ==
  {i \in 0..Len(str) :
     \/ i = 0
     \/ i = Len(str)
     \/ IsSpace(Ch(str, i)) # IsSpace(Ch(str, i + 1))}

\* window.getSelection() at the end of a pointer gesture: no range (<<>>),
\* a collapsed one, or a range of characters of one text node, with its ends
\* at word boundaries
WindowSelections(nodes) ==
  {<<>>}
    \cup UNION {{<<[node |-> k, start |-> ends[1], end |-> ends[2]]>> :
                   ends \in {e \in WordBoundaries(nodes[k].text)
                                     \X WordBoundaries(nodes[k].text) :
                               e[1] <= e[2]}} :
                k \in {j \in 1..Len(nodes) : nodes[j].t = "text"}}

\* Selection.toString() of a range of one text node
RangeText(nodes, range) ==
  Sub(nodes[range.node].text, range.start + 1, range.end)

\* handleMouseUp
handleMouseUp ==
  \E currentSelection \in WindowSelections(dom) :
    /\ IF /\ currentSelection # <<>>
          /\ currentSelection[1].start # currentSelection[1].end
          /\ Len(Trim(RangeText(dom, currentSelection[1]))) > 0
       THEN /\ selection' = <<[text |-> Trim(RangeText(dom, currentSelection[1])),
                               range |-> currentSelection[1]]>>
            /\ toolbarPosition' = TRUE
       ELSE /\ toolbarPosition' = FALSE
            /\ selection' = <<>>
    /\ last' = Did("mouseup")
    /\ UNCHANGED <<editorContent, isLoading, activeAiMode, suggestions,
                   grammarErrors, html, dom, timer, pending, inputs, generates,
                   suggests, setEpoch, rewrites, rewriteCount>>

\* the toolbar's onClose, called on a mousedown outside the toolbar
CloseToolbar ==
  /\ toolbarPosition
  /\ toolbarPosition' = FALSE
  /\ last' = Did("close")
  /\ UNCHANGED <<editorContent, isLoading, activeAiMode, suggestions,
                 grammarErrors, html, dom, timer, pending, inputs, generates,
                 suggests, setEpoch, selection, rewrites, rewriteCount>>

\* what handleRewrite started from
RewriteStart(name) ==
  [Did("rewrite") EXCEPT !.kind = name,
     !.preContent = editorContent, !.preHtml = InnerHTML(dom),
     !.prePlain = InnerText(dom), !.preMode = activeAiMode,
     !.preLoading = isLoading, !.n = Cardinality(rewrites)]

\* handleRewrite up to its await
handleRewrite(instruction) ==
  IF selection = <<>>
  THEN /\ last' = RewriteStart("no selection")
       /\ UNCHANGED <<editorContent, isLoading, activeAiMode, suggestions,
                      grammarErrors, html, dom, timer, pending, inputs,
                      generates, suggests, setEpoch, rewriting>>
  ELSE /\ rewriteCount < MaxRewrites
       /\ isLoading' = TRUE
       /\ activeAiMode' = "rewrite"
       /\ toolbarPosition' = FALSE
       /\ rewrites' = rewrites \cup
            {[n |-> rewriteCount + 1, selection |-> selection[1],
              instruction |-> instruction, content |-> editorContent,
              markup |-> InnerHTML(dom), plain |-> InnerText(dom)]}
       /\ rewriteCount' = rewriteCount + 1
       /\ last' = RewriteStart("selection")
       /\ UNCHANGED <<editorContent, suggestions, grammarErrors, html, dom,
                      timer, pending, inputs, generates, suggests, setEpoch,
                      selection>>

\* the submit of the toolbar's form: InlineToolbar's handleRewrite
SubmitInstruction ==
  /\ toolbarPosition
  /\ \E instruction \in Instructions :
       IF Trim(instruction) # ""
       THEN handleRewrite(instruction)
       ELSE /\ last' = Did("submit")
            /\ UNCHANGED <<editorContent, isLoading, activeAiMode, suggestions,
                           grammarErrors, html, dom, timer, pending, inputs,
                           generates, suggests, setEpoch, rewriting>>

\* what rewriteSelection returns: the trimmed reply or, from its catch
\* branch, the text it was given
RewriteResults(selectedText, failed) ==
  IF failed THEN {selectedText} ELSE {Trim(reply) : reply \in RewriteReplies}

\* range.deleteContents() and range.insertNode(createTextNode(str)) for a
\* range of one text node: the node is cut at the start of the range, and
\* the new node stands between its two parts
ReplaceRange(nodes, range, str) ==
  LET data == nodes[range.node].text IN
  SubSeq(nodes, 1, range.node - 1)
    \o <<TextNode(Sub(data, 1, range.start)), TextNode(str),
         TextNode(Sub(data, range.end + 1, Len(data)))>>
    \o SubSeq(nodes, range.node + 1, Len(nodes))

\* handleRewrite after its await, without its setSelection(null)
RewriteDoneKeepingSelection ==
  \E rw \in rewrites, failed \in {FALSE, TRUE} :
    \E rewrittenText \in RewriteResults(rw.selection.text, failed) :
      LET nodes == ReplaceRange(dom, rw.selection.range, rewrittenText) IN
      /\ rewrites' = rewrites \ {rw}
      /\ editorContent' = InnerHTML(nodes)
      /\ Rerender(InnerHTML(nodes), nodes, grammarErrors, suggestions)
      /\ isLoading' = FALSE
      /\ activeAiMode' = "null"
      /\ last' = [Did("rewritten") EXCEPT !.failed = failed,
                    !.result = rewrittenText, !.preContent = rw.content,
                    !.preHtml = rw.markup, !.prePlain = rw.plain]
      /\ UNCHANGED <<suggestions, grammarErrors, timer, pending, inputs,
                     generates, suggests, setEpoch, selection, toolbarPosition,
                     rewriteCount>>

\* handleRewrite after its await; the selection it uses is the one it was
\* called with
RewriteDone ==
  \E rw \in rewrites, failed \in {FALSE, TRUE} :
    \E rewrittenText \in RewriteResults(rw.selection.text, failed) :
      LET nodes == ReplaceRange(dom, rw.selection.range, rewrittenText) IN
      /\ rewrites' = rewrites \ {rw}
      /\ editorContent' = InnerHTML(nodes)
      /\ Rerender(InnerHTML(nodes), nodes, grammarErrors, suggestions)
      /\ selection' = <<>>
      /\ isLoading' = FALSE
      /\ activeAiMode' = "null"
      /\ last' = [Did("rewritten") EXCEPT !.failed = failed,
                    !.result = rewrittenText, !.preContent = rw.content,
                    !.preHtml = rw.markup, !.prePlain = rw.plain]
      /\ UNCHANGED <<suggestions, grammarErrors, timer, pending, inputs,
                     generates, suggests, setEpoch, toolbarPosition,
                     rewriteCount>>

RewriteInit ==
  \E plainText \in RewriteTexts :
    /\ dom = <<TextNode(plainText)>>
    /\ editorContent = EscapeText(plainText)
    /\ html = EscapeText(plainText)
    /\ grammarErrors = <<>>
    /\ suggestions = <<>>
    /\ isLoading = FALSE
    /\ activeAiMode = "null"
    /\ timeouts = {} /\ grammarCheckTimeoutRef = 0
    /\ pending = {}
    /\ selection = <<>> /\ toolbarPosition = FALSE
    /\ rewrites = {} /\ rewriteCount = 0
    /\ inputs = 0
    /\ generates = 0
    /\ suggests = 0
    /\ setEpoch = [grammar |-> 0, suggestion |-> 0]
    /\ last = NoOp

RewriteNext ==
  \/ handleMouseUp
  \/ CloseToolbar
  \/ SubmitInstruction
  \/ RewriteDone

RewriteSpec == RewriteInit /\ [][RewriteNext]_vars

\* a rewriteSelection call returns
RewriteReturns == \E rw \in rewrites : rewrites' = rewrites \ {rw}

\* RewriteSpec when every rewriteSelection call returns: weak fairness of
\* RewriteDone, written out as for the other service calls
RewriteLiveSpec ==
  /\ RewriteSpec
  /\ ([]<>(rewrites = {}) \/ []<><<RewriteReturns>>_vars)

(***************************************************************************)
(* What the properties below speak of.                                     *)
(***************************************************************************)
\* m occurs in s
Includes(s, m) == IndexOf(s, m) > 0

\* s with its first occurrence of pat replaced by rep, rep taken literally
ReplaceFirst(s, pat, rep) ==
  LET i == IndexOf(s, pat) IN
  IF i = 0 THEN s
  ELSE Sub(s, 1, i - 1) \o rep \o Sub(s, i + Len(pat), Len(s))

\* the id attribute of the overlay of the edit id of a kind
OverlayId(kind, id) ==
  IF kind = "grammar" THEN "id=\"error-" \o id \o "\""
  ELSE "id=\"suggestion-" \o id \o "\""

\* the document shows an element that carries the overlay id of the edit
ShowsOverlay(nodes, kind, id) ==
  \E k \in 1..Len(nodes) :
    /\ nodes[k].t = "open"
    /\ AttrOf(nodes[k], "id")
         = (IF kind = "grammar" THEN "error-" ELSE "suggestion-") \o id

\* seq without its k-th member
WithoutIndex(seq, k) ==
  [i \in 1..(Len(seq) - 1) |-> IF i < k THEN seq[i] ELSE seq[i + 1]]

\* the matchText of every edit of both lists
MatchTexts ==
  {grammarErrors[k].errorText : k \in 1..Len(grammarErrors)}
    \cup {suggestions[k].originalText : k \in 1..Len(suggestions)}

\* markup has an overlay that starts before an earlier one has ended: a
\* second "<span" with no "</span>" between the two
NestedOverlay(markup) ==
  \E i \in 1..Len(markup) :
    /\ MatchAt(markup, i, "<span")
    /\ LET next == IndexFrom(markup, "<span", i + 1)
           close == IndexFrom(markup, "</span>", i + 1)
       IN next > 0 /\ (close = 0 \/ next < close)

Rendered == last.op = "render"

(***************************************************************************)
(* The properties.                                                         *)
(***************************************************************************)
\* C1: after a click on an overlay that the user confirms, the plain text of
\* the document is the plain text before the click with the first
\* occurrence of the edit's matchText replaced by its replacementText.
C1_AcceptReplacesFirstOccurrence ==
  last.op = "accept" =>
    InnerText(dom) = ReplaceFirst(last.prePlain, last.matchText,
                                  last.replacementText)

\* C2: after a click on an overlay that the user declines, the document is
\* the text before the overlay was added: its plain text is the plain text
\* before the click and neither the element nor editorContent holds the
\* overlay markup of the edit any more.
C2_RejectRestoresDocument ==
  last.op = "reject" =>
    /\ InnerText(dom) = last.prePlain
    /\ ~ShowsOverlay(dom, last.kind, last.id)
    /\ ~Includes(editorContent, OverlayId(last.kind, last.id))

\* C3: resolving an edit removes exactly that edit from its own set (the
\* others stay, in their order) and leaves the other set as it was.
C3_ResolveRemovesExactlyThatEdit ==
  last.op \in {"accept", "reject"} =>
    IF last.kind = "grammar"
    THEN /\ grammarErrors
              = WithoutIndex(last.preErrors, FindById(last.preErrors, last.id))
         /\ suggestions = last.preSuggestions
    ELSE /\ suggestions
              = WithoutIndex(last.preSuggestions,
                             FindById(last.preSuggestions, last.id))
         /\ grammarErrors = last.preErrors

\* C4: for a single pending edit whose (non-empty) matchText occurs in the
\* plain text, the rendered markup is the plain text with exactly one
\* overlay, around the first occurrence of the matchText.
C4_OneOverlayOnFirstOccurrence ==
  /\ (Rendered /\ Len(grammarErrors) = 1 /\ Len(suggestions) = 0
      /\ grammarErrors[1].errorText # ""
      /\ Includes(last.prePlain, grammarErrors[1].errorText))
       => html = ReplaceFirst(last.prePlain, grammarErrors[1].errorText,
                              GrammarSpan(grammarErrors[1]))
  /\ (Rendered /\ Len(suggestions) = 1 /\ Len(grammarErrors) = 0
      /\ suggestions[1].originalText # ""
      /\ Includes(last.prePlain, suggestions[1].originalText))
       => html = ReplaceFirst(last.prePlain, suggestions[1].originalText,
                              SuggestionSpan(suggestions[1]))

\* C5: when every matchText of both sets is a substring of the plain text,
\* the rendered markup without its overlay markup (the text of the element
\* it is parsed into) is the plain text.
C5_RenderThenStripIsIdentity ==
  (Rendered /\ \A m \in MatchTexts : Includes(last.prePlain, m))
    => InnerText(ParseHtml(html)) = last.prePlain

\* C6: an edit whose matchText does not occur in the plain text gets no
\* overlay in the rendered markup.
C6_AbsentMatchTextGetsNoOverlay ==
  Rendered =>
    /\ \A k \in 1..Len(grammarErrors) :
         ~Includes(last.prePlain, grammarErrors[k].errorText)
           => ~Includes(html, OverlayId("grammar", grammarErrors[k].id))
    /\ \A k \in 1..Len(suggestions) :
         ~Includes(last.prePlain, suggestions[k].originalText)
           => ~Includes(html, OverlayId("suggestion", suggestions[k].id))

\* C7: an edit whose matchText is the empty string gets no overlay in the
\* rendered markup.
C7_EmptyMatchTextGetsNoOverlay ==
  Rendered =>
    /\ \A k \in 1..Len(grammarErrors) :
         grammarErrors[k].errorText = ""
           => ~Includes(html, OverlayId("grammar", grammarErrors[k].id))
    /\ \A k \in 1..Len(suggestions) :
         suggestions[k].originalText = ""
           => ~Includes(html, OverlayId("suggestion", suggestions[k].id))

\* C8: the markup of one render pass over both sets never has an overlay
\* inside the wrapped text, the tag or the attributes of another overlay.
C8_NoNestedOverlay ==
  Rendered => ~NestedOverlay(html)

\* C9: no EditSet ever holds edits of a request that was issued before the
\* latest keystroke.
C9_NoStaleEditsAfterKeystroke ==
  /\ Len(grammarErrors) > 0 => setEpoch.grammar = inputs
  /\ Len(suggestions) > 0 => setEpoch.suggestion = inputs

\* C10: right after an input event both EditSets are empty.
C10_InputClearsBothSets ==
  last.op = "input" => (suggestions = <<>> /\ grammarErrors = <<>>)

\* an input event has just run in a state where an EditSet held edits
C10_Witness ==
  /\ last.op = "input"
  /\ (Len(last.preErrors) > 0 \/ Len(last.preSuggestions) > 0)

\* C11: at most one timeout is armed, it is the one of the latest input
\* event and holds the plain text of that event, and every grammar request
\* comes from the timeout of the last input event before it: a run of input
\* events without an expiry between them makes one request at most, with
\* the text of the last of them.
C11_OneTimerLastKeystroke ==
  /\ Cardinality(timeouts) <= 1
  /\ \A t \in timeouts : t.id = inputs /\ t.id = grammarCheckTimeoutRef
  /\ \A r \in pending : r.kind = "grammar" => r.n = r.epoch
  /\ last.op = "input"
       => timeouts = {[id |-> inputs, plainText |-> InnerText(dom)]}

\* the timer has just expired after two input events with no expiry between
\* them, and the one grammar request carries the text of the second
C11_Witness ==
  /\ last.op = "timer"
  /\ inputs >= 2
  /\ setEpoch.grammar = 0
  /\ {r \in pending : r.kind = "grammar"}
       = {[kind |-> "grammar", text |-> last.prePlain, epoch |-> inputs,
           n |-> inputs]}

\* C12: at most one service request is in flight at any time.
C12_OneOperationAtATime ==
  Cardinality({r \in pending : ServiceCalled(r)}) <= 1

\* C13: when the timer fires for a text of 10 characters or fewer, no
\* grammar request is made and grammarErrors and activeAiMode stay as they
\* were; every grammar request is for a text of more than 10 characters.
C13_ShortTextNoGrammarCall ==
  /\ (last.op = "timer" /\ Len(last.prePlain) <= 10)
       => /\ ~\E r \in pending : r.kind = "grammar" /\ r.n = last.n
          /\ grammarErrors = last.preErrors
          /\ activeAiMode = last.preMode
  /\ \A r \in pending : r.kind = "grammar" => Len(r.text) > 10

\* the timer has just fired for a text of exactly 10 characters
C13_Witness ==
  /\ last.op = "timer"
  /\ Len(last.prePlain) = 10
  /\ pending = {}

\* C14: Get Suggestions asks the service only for a plain text of more than
\* 50 characters; for 50 characters or fewer it changes neither EditSet nor
\* the document.
C14_SuggestOnlyAboveThreshold ==
  /\ \A r \in pending :
       (r.kind = "suggest" /\ ServiceCalled(r)) => Len(r.text) > 50
  /\ (last.op = "suggested" /\ Len(last.prePlain) <= 50)
       => /\ suggestions = last.preSuggestions
          /\ grammarErrors = last.preErrors
          /\ editorContent = last.preContent

\* C15: when the rewrite service call fails, the document, its markup and
\* its plain text, is exactly what it was when the rewrite was submitted.
C15_RewriteFailureLeavesDocument ==
  (last.op = "rewritten" /\ last.failed) =>
    /\ InnerText(dom) = last.prePlain
    /\ InnerHTML(dom) = last.preHtml
    /\ editorContent = last.preContent

\* the controller is idle
Idle == ~isLoading /\ activeAiMode = "null"

\* C16: after a suggestion or grammar request that failed (or whose reply
\* did not parse), the EditSet of the request is empty and the controller
\* is idle.
C16_FailureIsEmptyResult ==
  /\ (last.op = "suggested" /\ last.failed) => (suggestions = <<>> /\ Idle)
  /\ (last.op = "checked" /\ last.failed) => (grammarErrors = <<>> /\ Idle)


\* the ids of the pending edits of both lists, one entry per edit
PendingIds ==
  [k \in 1..Len(grammarErrors) |-> grammarErrors[k].id]
    \o [k \in 1..Len(suggestions) |-> suggestions[k].id]

\* C17: the ids of all pending edits, style suggestions and grammar errors
\* taken together, are pairwise distinct in every reachable state.
C17_PendingIdsPairwiseDistinct ==
  \A i, j \in 1..Len(PendingIds) : PendingIds[i] = PendingIds[j] => i = j

\* the overlays of a kind in the document that enclose exactly the text m
OverlaysAround(nodes, kind, m) ==
  {k \in 1..(Len(nodes) - 2) :
     /\ nodes[k].t = "open"
     /\ ClassListContains(nodes[k], IF kind = "grammar" THEN GrammarClass
                                    ELSE SuggestionClass)
     /\ nodes[k + 1] = TextNode(m)
     /\ nodes[k + 2].t = "close"}

\* every overlay of a kind in the document
Overlays(nodes, kind) ==
  {k \in 1..Len(nodes) :
     /\ nodes[k].t = "open"
     /\ ClassListContains(nodes[k], IF kind = "grammar" THEN GrammarClass
                                    ELSE SuggestionClass)}

\* the first occurrences of a and b in s exist and share no character
DisjointIn(s, a, b) ==
  LET i == IndexOf(s, a)
      j == IndexOf(s, b)
  IN /\ a # "" /\ b # "" /\ i > 0 /\ j > 0
     /\ (i + Len(a) <= j \/ j + Len(b) <= i)

\* a grammar error and a style suggestion are pending and the matchTexts of
\* all pending edits lie apart from one another in the plain text
BothPendingDisjoint(plain, errors, sugs) ==
  /\ Len(errors) > 0 /\ Len(sugs) > 0
  /\ \A i \in 1..Len(errors) : \A j \in 1..Len(sugs) :
       DisjointIn(plain, errors[i].errorText, sugs[j].originalText)
  /\ \A i, j \in 1..Len(errors) :
       i # j => DisjointIn(plain, errors[i].errorText, errors[j].errorText)
  /\ \A i, j \in 1..Len(sugs) :
       i # j => DisjointIn(plain, sugs[i].originalText, sugs[j].originalText)

\* the document shows one overlay for each edit of the lists, around its
\* matchText, and no other overlay
OneOverlayEach(nodes, errors, sugs) ==
  /\ \A i \in 1..Len(errors) :
       Cardinality(OverlaysAround(nodes, "grammar", errors[i].errorText)) = 1
  /\ \A j \in 1..Len(sugs) :
       Cardinality(OverlaysAround(nodes, "suggestion", sugs[j].originalText)) = 1
  /\ Cardinality(Overlays(nodes, "grammar")) = Len(errors)
  /\ Cardinality(Overlays(nodes, "suggestion")) = Len(sugs)

\* C18: a document rendered with a grammar error and a style suggestion
\* pending on disjoint substrings of its plain text shows exactly one
\* overlay per pending edit, each around its own matchText; and after one
\* of them is resolved, every other edit is still pending in its set and
\* still shown as an overlay.
C18_BothOverlaysResolvedIndependently ==
  /\ (/\ Rendered
      /\ BothPendingDisjoint(last.prePlain, grammarErrors, suggestions))
       => OneOverlayEach(dom, grammarErrors, suggestions)
  /\ (/\ last.op \in {"accept", "reject"}
      /\ BothPendingDisjoint(last.prePlain, last.preErrors, last.preSuggestions))
       => LET k == IF last.kind = "grammar"
                   THEN FindById(last.preErrors, last.id)
                   ELSE FindById(last.preSuggestions, last.id)
              errors == IF last.kind = "grammar"
                        THEN WithoutIndex(last.preErrors, k)
                        ELSE last.preErrors
              sugs == IF last.kind = "grammar" THEN last.preSuggestions
                      ELSE WithoutIndex(last.preSuggestions, k)
          IN /\ grammarErrors = errors
             /\ suggestions = sugs
             /\ \A i \in 1..Len(errors) :
                  OverlaysAround(dom, "grammar", errors[i].errorText) # {}
             /\ \A j \in 1..Len(sugs) :
                  OverlaysAround(dom, "suggestion", sugs[j].originalText) # {}

\* C19: when a rewrite attempt completes, with the reply or with a failure,
\* no selection is captured any more; and a rewrite submitted while no
\* selection is captured starts no request and leaves the document and the
\* mode flags as they were.
C19_SelectionIsSingleUse ==
  /\ last.op = "rewritten" => selection = <<>>
  /\ (last.op = "rewrite" /\ last.kind = "no selection") =>
       /\ Cardinality(rewrites) = last.n
       /\ editorContent = last.preContent
       /\ InnerHTML(dom) = last.preHtml
       /\ isLoading = last.preLoading
       /\ activeAiMode = last.preMode

\* a rewrite submitted from the toolbar of a selection made while the
\* rewrite before it was in flight, after that rewrite has discarded it
C19_Witness ==
  /\ last.op = "rewrite" /\ last.kind = "no selection"
  /\ selection = <<>> /\ toolbarPosition
  /\ rewriteCount = 1 /\ rewrites = {}
  /\ InnerText(dom) # "Teh cat sat."

\* C20: when a generate request completes, the document is the text the
\* service function returned, the fixed error text if the call failed, and
\* both sets of pending edits are empty.
C20_GenerationReplacesDocument ==
  last.op = "generated" =>
    /\ last.failed => last.result = GenerateErrorText
    /\ editorContent = last.result
    /\ html = last.result
    /\ InnerText(dom) = last.result
    /\ suggestions = <<>>
    /\ grammarErrors = <<>>

\* a generation that failed while a grammar error was pending
C20_Witness ==
  /\ last.op = "generated" /\ last.failed
  /\ last.preErrors # <<>>
  /\ editorContent = GenerateErrorText

\* the title attributes of the overlays of a kind in the document
OverlayTitles(nodes, kind) ==
  {AttrOf(nodes[k], "title") : k \in Overlays(nodes, kind)}

\* C21: the overlay the renderer writes for a pending edit, a grammar error
\* as well as a style suggestion, carries a title attribute whose value is
\* the explanation, or "Suggested change: " and the proposed replacement,
\* double quotes included: no quote of those fields ends the attribute.
C21_TitleQuotesEscaped ==
  /\ (/\ Rendered /\ Len(grammarErrors) = 1 /\ Len(suggestions) = 0
      /\ grammarErrors[1].errorText # ""
      /\ Includes(last.prePlain, grammarErrors[1].errorText))
       => OverlayTitles(dom, "grammar") = {grammarErrors[1].explanation}
  /\ (/\ Rendered /\ Len(suggestions) = 1 /\ Len(grammarErrors) = 0
      /\ suggestions[1].originalText # ""
      /\ Includes(last.prePlain, suggestions[1].originalText))
       => OverlayTitles(dom, "suggestion")
            = {"Suggested change: " \o suggestions[1].suggestedText}

\* no edit is pending in either list
BothSetsEmpty == Len(suggestions) = 0 /\ Len(grammarErrors) = 0

\* C22: when both lists of pending edits are empty the renderer's output is
\* the stored document as it is, the markup it holds included.
C22_EmptySetsRenderIsIdentity ==
  BothSetsEmpty => html = editorContent

\* a stored document that holds markup is rendered with both lists empty
C22_Witness ==
  /\ BothSetsEmpty
  /\ last.op \in {"input", "accept", "reject"}
  /\ Includes(editorContent, "<span")
  /\ html = editorContent

\* markup holds the start of an overlay of either kind
HasOverlayMarkup(markup) ==
  \/ Includes(markup, SuggestionClass)
  \/ Includes(markup, GrammarClass)

\* C23: whenever both lists of pending edits are empty, the stored document
\* holds no overlay markup, after any sequence of replies, input events,
\* resolutions and generations.
C23_NoOverlayWithoutPendingEdit ==
  BothSetsEmpty => ~HasOverlayMarkup(editorContent)

\* a generate, suggest or rewrite request is in flight
BlockingRequestInFlight ==
  \/ \E r \in pending : r.kind \in {"generate", "suggest"}
  \/ rewrites # {}

\* C24: whenever a generate, suggest or rewrite request is in flight,
\* isLoading is true and activeAiMode is not null, whatever requests start
\* or complete meanwhile.
C24_LoadingWhileRequestInFlight ==
  BlockingRequestInFlight => (isLoading /\ activeAiMode # "null")

\* no request of any kind is in flight and both flags are reset
AtRest == Idle /\ pending = {} /\ rewrites = {}

\* C25: if every service call returns and the user stops issuing events, the
\* system reaches a state with isLoading false, activeAiMode null and no
\* request in flight, and stays there.
C25_EventuallyIdle == <>[]AtRest

\* the system at rest after a generation and a grammar check have overlapped
C25_Witness ==
  /\ AtRest /\ timeouts = {}
  /\ generates = 1 /\ setEpoch.grammar > 0
  /\ last.op \in {"generated", "checked"}
=============================================================================
